---- MODULE Spec2Model ----
(***************************************************************************)
(* Model of logging_helpers: logging_restore (a generator-based context    *)
(* manager saving and restoring the root logger's handlers and level),     *)
(* caller_name (stack-based name derivation) and _L (logger for caller).   *)
(***************************************************************************)
EXTENDS Integers, Sequences, FiniteSets, TLC

\* ------------------------------------------------------------------ bounds
NumHandlers == 2      \* handler objects available in the single-guard model
NestHandlers == 1     \* handler objects available in the nested-guard model
MaxDepth == 2         \* deepest nesting of logging_restore scopes
ConcHandlers == 1     \* handler objects available in the two-context model
MaxStack == 2         \* deepest call stack below caller_name / _L
MaxSkip == 3          \* largest skip argument tried

\* Severity levels of the logging facility used here: NOTSET, DEBUG, INFO.
Levels == {0, 10, 20}
\* Errors a guarded block may raise.
Errors == {"E1", "E2"}
NoExc == "None"

Handlers == 1..NumHandlers

\* ------------------------------------------------------------------- state
VARIABLES
    rootHandlers,   \* logging.root.handlers
    rootLevel,      \* logging.root.level
    guards,         \* active logging_restore generators, outermost first
    exc,            \* the error in flight, or NoExc
    raised,         \* the error the block raised, while it is in flight (history)
    quiet,          \* no mutation since the most recent scope entry (history)
    nest,           \* what happened inside the outermost scope so far (history):
                    \* "none", "inner" (a mutating inner scope completed
                    \* normally) or "raised" (some block raised)
    ev              \* the last step taken (history)

rvars == <<rootHandlers, rootLevel>>
hvars == <<guards, exc, raised, quiet, nest, ev>>

VARIABLES
    pc,         \* where each context is in its with-statement
    loc,        \* each context's generator locals: handlers, level, todo
    overlap,    \* a context entered its scope while the other was inside one
    orig        \* the root configuration before either scope (history)

cvars == <<pc, loc, overlap, orig>>

VARIABLES
    frames,      \* the call stack, outermost frame first; f_back is an index
    frozen,      \* getattr(sys, 'frozen', False)
    loggerDict,  \* the names in the logging registry
    cev          \* the last caller_name / _L call and what it returned

nvars == <<frames, frozen, loggerDict, cev>>
vars == <<rvars, hvars, cvars, nvars>>

\* ---------------------------------------------------------------- helpers
Range(s) == {s[i] : i \in 1..Len(s)}

\* All duplicate-free sequences over S: the lists root.handlers can hold when
\* it is only changed through addHandler / removeHandler.
HandlerLists(S) ==
    UNION {{s \in [1..n -> S] : \A i, j \in 1..n : i # j => s[i] # s[j]}
           : n \in 0..Cardinality(S)}

\* ------------------------------------------------- the logging facility
\* Logger.removeHandler: "if hdlr in self.handlers: self.handlers.remove(hdlr)"
\* (list.remove drops the first occurrence).
removeHandler(hs, h) ==
    IF h \in Range(hs)
    THEN LET i == CHOOSE k \in 1..Len(hs) :
                     hs[k] = h /\ \A j \in 1..(k - 1) : hs[j] # h
         IN SubSeq(hs, 1, i - 1) \o SubSeq(hs, i + 1, Len(hs))
    ELSE hs

\* Logger.addHandler: "if not (hdlr in self.handlers): self.handlers.append(hdlr)"
addHandler(hs, h) == IF h \notin Range(hs) THEN Append(hs, h) ELSE hs

\* Logger.getEffectiveLevel on the root logger: the first non-zero level on the
\* chain root -> parent; root has no parent, so NOTSET (0) when root.level is 0.
getEffectiveLevel(lvl) == IF lvl # 0 THEN lvl ELSE 0

\* Logger.setLevel with an integer level: the level becomes that integer.
setLevel(lvl) == lvl

\* "for h in todo: logging.root.removeHandler(h)"
RECURSIVE RemoveEach(_, _)
RemoveEach(hs, todo) ==
    IF todo = <<>> THEN hs
    ELSE RemoveEach(removeHandler(hs, Head(todo)), Tail(todo))

\* "[logging.root.addHandler(h) for h in todo]"
RECURSIVE AddEach(_, _)
AddEach(hs, todo) ==
    IF todo = <<>> THEN hs
    ELSE AddEach(addHandler(hs, Head(todo)), Tail(todo))

\* ------------------------------------------------------- logging_restore
\* Line 38: handlers = logging.root.handlers[:]
SaveHandlers(hs) == hs

\* Line 39: level = logging.root.getEffectiveLevel()
SaveLevelDefault(lvl) == IF lvl # 0 THEN lvl ELSE 30
SaveLevel(lvl) == getEffectiveLevel(lvl)

\* Lines 40-42: with clear_handlers every saved handler is removed at entry.
ClearOnEntry(hs, saved, clear) ==
    IF clear THEN RemoveEach(hs, saved) ELSE hs

\* Lines 44-46: remove every handler now present, then add the saved ones.
RestoreHandlersNoRemove(cur, saved) == AddEach(cur, saved)
RestoreHandlers(cur, saved) ==
    LET handlers_to_remove == cur
    IN AddEach(RemoveEach(cur, handlers_to_remove), saved)

\* Line 47: logging.root.setLevel(level)
RestoreLevel(cur, saved) == setLevel(saved)

\* Line 43 when the block raised: contextmanager throws the error into the
\* generator at the yield.  No try statement encloses the yield, so the error
\* leaves the generator at once: lines 44-47 do not run, and the error that
\* comes out is the one thrown in.
GenThrowSwallow(e) == NoExc
GenThrow(e) == e

\* Lines 38-39: the generator's locals, one record per active scope.  h0/l0
\* record the root configuration as it was when the scope was entered.
FrameShared(gs, hs, lvl) ==
    LET f == [handlers |-> SaveHandlers(hs), level |-> SaveLevel(lvl),
              h0 |-> hs, l0 |-> lvl]
    IN [i \in 1..Len(gs) |->
            [gs[i] EXCEPT !.handlers = f.handlers, !.level = f.level]]
       \o <<f>>
Frame(gs, hs, lvl) ==
    Append(gs, [handlers |-> SaveHandlers(hs), level |-> SaveLevel(lvl),
                h0 |-> hs, l0 |-> lvl])

NoEv(kind) ==
    [kind |-> kind, clear |-> FALSE, h0 |-> <<>>, l0 |-> 0,
     preH |-> <<>>, preL |-> 0, depth |-> 0, quiet |-> FALSE,
     inner |-> FALSE, err |-> NoExc]

\* The with-statement is entered: __enter__ runs the generator to its yield.
Enter(cap, clear) ==
    /\ exc = NoExc
    /\ Len(guards) < cap
    /\ guards' = Frame(guards, rootHandlers, rootLevel)
    /\ rootHandlers' = ClearOnEntry(rootHandlers, SaveHandlers(rootHandlers), clear)
    /\ rootLevel' = rootLevel
    /\ quiet' = TRUE
    /\ nest' = IF Len(guards) = 0 THEN "none" ELSE nest
    /\ ev' = [NoEv("enter") EXCEPT !.clear = clear, !.h0 = rootHandlers,
                                   !.l0 = rootLevel, !.depth = Len(guards) + 1]
    /\ UNCHANGED <<exc, raised>>
    /\ UNCHANGED <<cvars, nvars>>

\* The block (or any code outside a scope) registers a handler.
BlockAddHandler(h) ==
    /\ exc = NoExc
    /\ rootHandlers' = addHandler(rootHandlers, h)
    /\ quiet' = FALSE
    /\ ev' = NoEv("block")
    /\ UNCHANGED <<rootLevel, guards, exc, raised, nest>>
    /\ UNCHANGED <<cvars, nvars>>

\* The block deregisters a handler.
BlockRemoveHandler(h) ==
    /\ exc = NoExc
    /\ rootHandlers' = removeHandler(rootHandlers, h)
    /\ quiet' = FALSE
    /\ ev' = NoEv("block")
    /\ UNCHANGED <<rootLevel, guards, exc, raised, nest>>
    /\ UNCHANGED <<cvars, nvars>>

\* The block changes the root level, as in the docstring's example.
BlockSetLevel(l) ==
    /\ exc = NoExc
    /\ rootLevel' = setLevel(l)
    /\ quiet' = FALSE
    /\ ev' = NoEv("block")
    /\ UNCHANGED <<rootHandlers, guards, exc, raised, nest>>
    /\ UNCHANGED <<cvars, nvars>>

\* The block raises an error.
BlockRaise(e) ==
    /\ exc = NoExc
    /\ Len(guards) > 0
    /\ exc' = e
    /\ raised' = e
    /\ nest' = "raised"
    /\ ev' = NoEv("raise")
    /\ UNCHANGED <<rootHandlers, rootLevel, guards, quiet>>
    /\ UNCHANGED <<cvars, nvars>>

\* The block ends normally: __exit__ resumes the generator after the yield.
Exit ==
    /\ exc = NoExc
    /\ Len(guards) > 0
    /\ LET g == guards[Len(guards)]
           d == Len(guards)
           changed == rootHandlers # g.h0 \/ rootLevel # g.l0
       IN /\ rootHandlers' = RestoreHandlers(rootHandlers, g.handlers)
          /\ rootLevel' = RestoreLevel(rootLevel, g.level)
          /\ guards' = SubSeq(guards, 1, d - 1)
          /\ nest' = IF d = 1 THEN "none"
                     ELSE IF /\ nest = "none"
                             /\ changed
                             /\ <<g.h0, g.l0>> # <<guards[1].h0, guards[1].l0>>
                          THEN "inner" ELSE nest
          /\ ev' = [NoEv("exit") EXCEPT !.h0 = g.h0, !.l0 = g.l0,
                        !.preH = rootHandlers, !.preL = rootLevel,
                        !.depth = d, !.quiet = quiet,
                        !.inner = (nest = "inner")]
    /\ quiet' = FALSE
    /\ UNCHANGED <<exc, raised>>
    /\ UNCHANGED <<cvars, nvars>>

\* The block raised: __exit__ throws the error into the generator, and what
\* the generator raises goes on to the code around the with-statement.
Throw ==
    /\ exc # NoExc
    /\ Len(guards) > 0
    /\ LET g == guards[Len(guards)]
           d == Len(guards)
       IN /\ guards' = SubSeq(guards, 1, d - 1)
          /\ exc' = GenThrow(exc)
          /\ ev' = [NoEv("throw") EXCEPT !.h0 = g.h0, !.l0 = g.l0,
                        !.preH = rootHandlers, !.preL = rootLevel,
                        !.depth = d, !.quiet = quiet,
                        !.err = GenThrow(exc)]
          /\ nest' = IF d = 1 THEN "none" ELSE nest
    /\ quiet' = FALSE
    /\ UNCHANGED <<rootHandlers, rootLevel, raised>>
    /\ UNCHANGED <<cvars, nvars>>

\* Code around the with-statement catches the error.
Catch ==
    /\ exc # NoExc
    /\ exc' = NoExc
    /\ raised' = NoExc
    /\ ev' = NoEv("catch")
    /\ UNCHANGED <<rootHandlers, rootLevel, guards, quiet, nest>>
    /\ UNCHANGED <<cvars, nvars>>

GuardInit(H) ==
    /\ rootHandlers \in HandlerLists(H)
    /\ rootLevel \in Levels
    /\ guards = <<>>
    /\ exc = NoExc
    /\ raised = NoExc
    /\ quiet = FALSE
    /\ nest = "none"
    /\ ev = NoEv("init")

GuardNext(H, cap) ==
    \/ \E clear \in BOOLEAN : Enter(cap, clear)
    \/ \E h \in H : BlockAddHandler(h)
    \/ \E h \in H : BlockRemoveHandler(h)
    \/ \E l \in Levels : BlockSetLevel(l)
    \/ \E e \in Errors : BlockRaise(e)
    \/ Exit
    \/ Throw
    \/ Catch

\* ------------------------------- logging_restore in two execution contexts
\* Each context runs one "with logging_restore(...)" statement on the shared
\* root logger.  A step is one call on the logging facility (each takes the
\* facility's lock) or one list copy.
Threads == {"A", "B"}

Other(t) == CHOOSE u \in Threads : u # t
Active(t) == pc[t] \notin {"idle", "done"}
NoLoc == [handlers |-> <<>>, level |-> 0, clear |-> FALSE, todo |-> <<>>]

\* Line 38: handlers = logging.root.handlers[:]
T_SaveHandlers(t, clear) ==
    /\ pc[t] = "idle"
    /\ loc' = [loc EXCEPT ![t] = [NoLoc EXCEPT
                  !.handlers = SaveHandlers(rootHandlers), !.clear = clear]]
    /\ pc' = [pc EXCEPT ![t] = "save_level"]
    /\ overlap' = (overlap \/ Active(Other(t)))
    /\ UNCHANGED <<rootHandlers, rootLevel, orig>>
    /\ UNCHANGED <<hvars, nvars>>

\* Lines 39-40: level = logging.root.getEffectiveLevel(); if clear_handlers:
T_SaveLevel(t) ==
    /\ pc[t] = "save_level"
    /\ loc' = [loc EXCEPT ![t].level = SaveLevel(rootLevel),
                          ![t].todo = IF loc[t].clear THEN loc[t].handlers
                                      ELSE <<>>]
    /\ pc' = [pc EXCEPT ![t] = IF loc[t].clear /\ loc[t].handlers # <<>>
                               THEN "clearing" ELSE "block"]
    /\ UNCHANGED <<rootHandlers, rootLevel, overlap, orig>>
    /\ UNCHANGED <<hvars, nvars>>

\* Lines 41-42: one turn of "for h in handlers: removeHandler(h)"
T_ClearStep(t) ==
    /\ pc[t] = "clearing"
    /\ rootHandlers' = removeHandler(rootHandlers, Head(loc[t].todo))
    /\ loc' = [loc EXCEPT ![t].todo = Tail(loc[t].todo)]
    /\ pc' = [pc EXCEPT ![t] = IF Tail(loc[t].todo) = <<>> THEN "block"
                               ELSE "clearing"]
    /\ UNCHANGED <<rootLevel, overlap, orig>>
    /\ UNCHANGED <<hvars, nvars>>

\* Line 43: the block registers a handler.
T_BlockAddHandler(t, h) ==
    /\ pc[t] = "block"
    /\ rootHandlers' = addHandler(rootHandlers, h)
    /\ UNCHANGED <<rootLevel, pc, loc, overlap, orig>>
    /\ UNCHANGED <<hvars, nvars>>

\* Line 43: the block deregisters a handler.
T_BlockRemoveHandler(t, h) ==
    /\ pc[t] = "block"
    /\ rootHandlers' = removeHandler(rootHandlers, h)
    /\ UNCHANGED <<rootLevel, pc, loc, overlap, orig>>
    /\ UNCHANGED <<hvars, nvars>>

\* Line 43: the block sets the root level.
T_BlockSetLevel(t, l) ==
    /\ pc[t] = "block"
    /\ rootLevel' = setLevel(l)
    /\ UNCHANGED <<rootHandlers, pc, loc, overlap, orig>>
    /\ UNCHANGED <<hvars, nvars>>

\* Line 44: handlers_to_remove = logging.root.handlers[:]
T_ExitCopy(t) ==
    /\ pc[t] = "block"
    /\ loc' = [loc EXCEPT ![t].todo = IF rootHandlers # <<>> THEN rootHandlers
                                      ELSE loc[t].handlers]
    /\ pc' = [pc EXCEPT ![t] = IF rootHandlers # <<>> THEN "removing"
                               ELSE IF loc[t].handlers # <<>> THEN "adding"
                               ELSE "set_level"]
    /\ UNCHANGED <<rootHandlers, rootLevel, overlap, orig>>
    /\ UNCHANGED <<hvars, nvars>>

\* Line 45: one turn of "[removeHandler(h) for h in handlers_to_remove]"
T_RemoveStep(t) ==
    /\ pc[t] = "removing"
    /\ rootHandlers' = removeHandler(rootHandlers, Head(loc[t].todo))
    /\ IF Tail(loc[t].todo) # <<>>
       THEN /\ loc' = [loc EXCEPT ![t].todo = Tail(loc[t].todo)]
            /\ pc' = pc
       ELSE /\ loc' = [loc EXCEPT ![t].todo = loc[t].handlers]
            /\ pc' = [pc EXCEPT ![t] = IF loc[t].handlers # <<>> THEN "adding"
                                       ELSE "set_level"]
    /\ UNCHANGED <<rootLevel, overlap, orig>>
    /\ UNCHANGED <<hvars, nvars>>

\* Line 46: one turn of "[addHandler(h) for h in handlers]"
T_AddStep(t) ==
    /\ pc[t] = "adding"
    /\ rootHandlers' = addHandler(rootHandlers, Head(loc[t].todo))
    /\ loc' = [loc EXCEPT ![t].todo = Tail(loc[t].todo)]
    /\ pc' = [pc EXCEPT ![t] = IF Tail(loc[t].todo) = <<>> THEN "set_level"
                               ELSE "adding"]
    /\ UNCHANGED <<rootLevel, overlap, orig>>
    /\ UNCHANGED <<hvars, nvars>>

\* Line 47: logging.root.setLevel(level)
T_SetLevel(t) ==
    /\ pc[t] = "set_level"
    /\ rootLevel' = RestoreLevel(rootLevel, loc[t].level)
    /\ pc' = [pc EXCEPT ![t] = "done"]
    /\ UNCHANGED <<rootHandlers, loc, overlap, orig>>
    /\ UNCHANGED <<hvars, nvars>>

ConcIdle ==
    /\ pc = [t \in Threads |-> "idle"]
    /\ loc = [t \in Threads |-> NoLoc]
    /\ overlap = FALSE
    /\ orig = [h |-> <<>>, l |-> 0]

ConcInit ==
    /\ rootHandlers \in HandlerLists(1..ConcHandlers)
    /\ rootLevel \in Levels
    /\ pc = [t \in Threads |-> "idle"]
    /\ loc = [t \in Threads |-> NoLoc]
    /\ overlap = FALSE
    /\ orig = [h |-> rootHandlers, l |-> rootLevel]

ConcNext ==
    \E t \in Threads :
        \/ \E clear \in BOOLEAN : T_SaveHandlers(t, clear)
        \/ T_SaveLevel(t)
        \/ T_ClearStep(t)
        \/ \E h \in 1..ConcHandlers : T_BlockAddHandler(t, h)
        \/ \E h \in 1..ConcHandlers : T_BlockRemoveHandler(t, h)
        \/ \E l \in Levels : T_BlockSetLevel(t, l)
        \/ T_ExitCopy(t)
        \/ T_RemoveStep(t)
        \/ T_AddStep(t)
        \/ T_SetLevel(t)

\* ------------------------------------------------------ caller_name and _L
NoModule == "None"      \* inspect.getmodule(frame) found no module
NoSelf == "None"        \* the frame's locals hold no 'self'

\* The code a frame can be running: its module (as inspect.getmodule resolves
\* it), its file (co_filename, as path parts), the class of the value bound to
\* the local 'self' and its co_name.
SrcFile == [dir |-> <<"pkg">>, stem |-> "mod", ext |-> ".py"]
ConsoleFile == [dir |-> <<>>, stem |-> "<stdin>", ext |-> ""]
FrameKinds ==
    { [module |-> "pkg.mod", file |-> SrcFile, self |-> NoSelf, codename |-> "<module>"],
      [module |-> "pkg.mod", file |-> SrcFile, self |-> NoSelf, codename |-> "f"],
      [module |-> "pkg.mod", file |-> SrcFile, self |-> "C", codename |-> "m"],
      [module |-> NoModule, file |-> ConsoleFile, self |-> NoSelf, codename |-> "g"],
      [module |-> NoModule, file |-> ConsoleFile, self |-> NoSelf, codename |-> "<module>"] }

\* The frame of _L itself (lines 50-52 of logging_helpers/__init__.py).
LFrame ==
    [module |-> "logging_helpers",
     file |-> [dir |-> <<"logging_helpers">>, stem |-> "__init__", ext |-> ".py"],
     self |-> NoSelf, codename |-> "_L"]

\* "sep".join(parts)
RECURSIVE Join(_, _)
Join(parts, sep) ==
    IF parts = <<>> THEN ""
    ELSE IF Len(parts) = 1 THEN parts[1]
    ELSE parts[1] \o sep \o Join(Tail(parts), sep)

\* Lines 78-83: stack_(frame) follows f_back until it is None (0 here).
RECURSIVE stack_(_, _)
stack_(fs, frame) ==
    IF frame = 0 THEN <<>>
    ELSE <<frame>> \o stack_(fs, fs[frame].f_back)

\* Lines 98-101: the module name inferred from the file name:
\* path_parts[:-1] + [splitext(path_parts[-1])[0]], joined with '.'.
FrozenModuleName(file) == Join(Append(file.dir, file.stem), ".")

\* Lines 91-108: the module part of the name.
ModulePart(fr, isFrozen) ==
    IF isFrozen THEN <<FrozenModuleName(fr.file)>>
    ELSE IF fr.module # NoModule THEN <<fr.module>>
    ELSE <<>>

\* Lines 110-114: the class part of the name.
ClassPart(fr) == IF fr.self # NoSelf THEN <<fr.self>> ELSE <<>>

\* Lines 115-117: the function part of the name.
CodePart(fr) == IF fr.codename # "<module>" THEN <<fr.codename>> ELSE <<>>

\* Lines 91-119: the name built for the frame found.
FrameNameClassLast(fr, isFrozen) ==
    Join(ModulePart(fr, isFrozen) \o CodePart(fr) \o ClassPart(fr), ".")
FrameName(fr, isFrozen) ==
    Join(ModulePart(fr, isFrozen) \o ClassPart(fr) \o CodePart(fr), ".")

\* Lines 86-87: start = 0 + skip; the test "len(stack) < start + 1".
Start(skip) == 0 + skip
TooShortOffByOne(stack, start) == Len(stack) < start
TooShort(stack, start) == Len(stack) < start + 1

\* Lines 85-119: caller_name(skip), called by the frame `caller` of the heap
\* fs.  stack[start] is Python's 0-based indexing: IndexError past the end,
\* counting from the end for a negative index.
caller_name(fs, caller, skip, isFrozen) ==
    LET stack == stack_(fs, caller)
        start == Start(skip)
    IN IF TooShort(stack, start)
       THEN [result |-> "", parent |-> 0, err |-> NoExc]
       ELSE IF start >= Len(stack) \/ start < -Len(stack)
       THEN [result |-> "", parent |-> 0, err |-> "IndexError"]
       ELSE LET parentframe == IF start >= 0 THEN stack[start + 1]
                               ELSE stack[Len(stack) + start + 1]
            IN [result |-> FrameName(fs[parentframe], isFrozen),
                parent |-> parentframe, err |-> NoExc]

\* logging.getLogger(name): the root logger for an empty name, else the
\* registry's logger of that name (made on first use).  A logger is
\* identified by its name.
getLogger(name) == IF name = "" THEN "root" ELSE name

\* Line 52: the skip that _L hands to caller_name.
LSkipSame(skip) == skip
LSkip(skip) == skip + 1

NoCev == [op |-> "none", skip |-> 0, result |-> "", parent |-> 0,
          err |-> NoExc, logger |-> ""]

\* A frame running code k whose caller is frame b.
WithBack(k, b) ==
    [module |-> k.module, file |-> k.file, self |-> k.self,
     codename |-> k.codename, f_back |-> b]

\* Some function is called: a frame is pushed.
Call(k) ==
    /\ Len(frames) < MaxStack
    /\ frames' = Append(frames, WithBack(k, Len(frames)))
    /\ cev' = NoCev
    /\ UNCHANGED <<frozen, loggerDict>>
    /\ UNCHANGED <<rvars, hvars, cvars>>

\* The running function returns: its frame is popped.
Return ==
    /\ Len(frames) > 1
    /\ frames' = SubSeq(frames, 1, Len(frames) - 1)
    /\ cev' = NoCev
    /\ UNCHANGED <<frozen, loggerDict>>
    /\ UNCHANGED <<rvars, hvars, cvars>>

\* The running function calls caller_name(skip).
CallerName(skip) ==
    /\ LET r == caller_name(frames, Len(frames), skip, frozen)
       IN cev' = [NoCev EXCEPT !.op = "caller_name", !.skip = skip,
                     !.result = r.result, !.parent = r.parent, !.err = r.err]
    /\ UNCHANGED <<frames, frozen, loggerDict>>
    /\ UNCHANGED <<rvars, hvars, cvars>>

\* The running function calls _L(skip): _L's frame is pushed, caller_name is
\* called from it, the registry is asked for the logger, the frame is popped.
L(skip) ==
    /\ LET fs == Append(frames, WithBack(LFrame, Len(frames)))
           r == caller_name(fs, Len(fs), LSkip(skip), frozen)
       IN /\ cev' = [NoCev EXCEPT !.op = "_L", !.skip = skip,
                        !.result = r.result, !.parent = r.parent,
                        !.err = r.err,
                        !.logger = IF r.err = NoExc THEN getLogger(r.result)
                                   ELSE ""]
          /\ loggerDict' = IF r.err = NoExc /\ r.result # ""
                           THEN loggerDict \cup {r.result} ELSE loggerDict
    /\ UNCHANGED <<frames, frozen>>
    /\ UNCHANGED <<rvars, hvars, cvars>>

CallerIdle ==
    /\ frames = <<>>
    /\ frozen = FALSE
    /\ loggerDict = {}
    /\ cev = NoCev

CallerInit ==
    /\ \E k \in {x \in FrameKinds : x.codename = "<module>"} :
          frames = <<WithBack(k, 0)>>
    /\ frozen \in BOOLEAN
    /\ loggerDict = {}
    /\ cev = NoCev

CallerNext ==
    \/ \E k \in FrameKinds : Call(k)
    \/ Return
    \/ \E skip \in 0..MaxSkip : CallerName(skip)
    \/ \E skip \in 0..MaxSkip : L(skip)

GuardIdle ==
    /\ guards = <<>>
    /\ exc = NoExc
    /\ raised = NoExc
    /\ quiet = FALSE
    /\ nest = "none"
    /\ ev = NoEv("init")

\* ---------------------------------------------------------- specifications
\* One logging_restore scope at a time, over NumHandlers handlers.
Init == GuardInit(Handlers) /\ ConcIdle /\ CallerIdle
Next == GuardNext(Handlers, 1)
Spec == Init /\ [][Next]_vars

\* Nested logging_restore scopes, up to MaxDepth deep.
InitNested == GuardInit(1..NestHandlers) /\ ConcIdle /\ CallerIdle
NextNested == GuardNext(1..NestHandlers, MaxDepth)
SpecNested == InitNested /\ [][NextNested]_vars

\* Two execution contexts, each running one logging_restore scope.
InitConc == ConcInit /\ GuardIdle /\ CallerIdle
NextConc == ConcNext
SpecConc == InitConc /\ [][NextConc]_vars

\* A program calling caller_name and _L at various stack depths.
InitCaller ==
    /\ CallerInit /\ GuardIdle /\ ConcIdle
    /\ rootHandlers = <<>>
    /\ rootLevel = 0
NextCaller == CallerNext
SpecCaller == InitCaller /\ [][NextCaller]_vars

\* ------------------------------------------------------------ properties
RootIsEntryConfig == rootHandlers = ev.h0 /\ rootLevel = ev.l0

\* C1: after a logging_restore scope whose block completed normally, the root
\* handler list (same handlers, same order) and the root level equal what they
\* were when the scope was entered, whatever the block added, removed,
\* reordered or set.
C1_RestoreOnNormalExit == ev.kind = "exit" => RootIsEntryConfig

\* C1 witness: a scope entered with two handlers ends normally after its block
\* swapped the two handlers and changed the level.
C1_Witness ==
    /\ ev.kind = "exit"
    /\ Len(ev.h0) = 2
    /\ ev.preH = <<ev.h0[2], ev.h0[1]>>
    /\ ev.preL # ev.l0

\* C2: when the block raises, the root handler list and level equal the
\* snapshot taken at entry by the time the error reaches the caller.
C2_RestoreOnError == ev.kind = "throw" => RootIsEntryConfig

\* C3: an error raised in the block reaches the code around the
\* with-statement as that very error, and entering or normally leaving the
\* scope raises nothing.
C3_ErrorUnchanged ==
    /\ ev.kind = "throw" => (ev.err = raised /\ exc = raised /\ raised \in Errors)
    /\ ev.kind \in {"enter", "exit"} => exc = NoExc

\* C3 witness: a block that changed the configuration raised E2 and the scope
\* was left with that error.
C3_Witness ==
    /\ ev.kind = "throw"
    /\ raised = "E2"
    /\ <<ev.preH, ev.preL>> # <<ev.h0, ev.l0>>

\* The entry half of C4: with clear_handlers the handler list is empty right
\* after entry, without it the list is unchanged; the level is unchanged.
C4_AtEntry ==
    ev.kind = "enter" =>
        /\ rootLevel = ev.l0
        /\ rootHandlers = IF ev.clear THEN <<>> ELSE ev.h0

\* C4: the entry half, and after scope exit the handlers present before entry
\* are registered again in their original order, for both values of
\* clear_handlers.
C4_ClearHandlers ==
    /\ C4_AtEntry
    /\ ev.kind \in {"exit", "throw"} => rootHandlers = ev.h0

\* C5: entering and leaving a scope whose block performs no mutation leaves
\* the root handler list and level as they were before entry.
C5_NoMutationNoChange ==
    (ev.kind \in {"exit", "throw"} /\ ev.quiet) => RootIsEntryConfig

\* C10: with nested scopes in one execution context, every scope that ends
\* normally leaves the root configuration as it was when that scope was
\* entered (the inner one as the outer block had left it), and every scope
\* still active keeps the snapshot of its own entry.
C10_NestedRestore ==
    /\ ev.kind = "exit" => RootIsEntryConfig
    /\ \A i \in 1..Len(guards) :
          guards[i].handlers = guards[i].h0 /\ guards[i].level = guards[i].l0

\* C10 witness: the outer scope ends normally after an inner scope, entered
\* once the outer block had changed the configuration and itself changing it,
\* had ended normally, and no block raised.
C10_Witness ==
    /\ ev.kind = "exit"
    /\ ev.depth = 1
    /\ ev.inner
    /\ <<ev.preH, ev.preL>> # <<ev.h0, ev.l0>>

\* C9 (concurrent use is unsafe), stated as what the model checker can close:
\* when both contexts have left their scopes and the root configuration
\* differs from the one before either scope, the two scopes overlapped; the
\* witness below is the interleaving the claim asserts to exist.
C9_ClobberNeedsOverlap ==
    (/\ pc["A"] = "done"
     /\ pc["B"] = "done"
     /\ <<rootHandlers, rootLevel>> # <<orig.h, orig.l>>) => overlap

\* C9 witness: both scopes have ended normally and the root handler list or
\* level is not what it was before either scope was entered.
C9_Witness ==
    /\ pc["A"] = "done"
    /\ pc["B"] = "done"
    /\ <<rootHandlers, rootLevel>> # <<orig.h, orig.l>>

\* The caller identity of a frame as the specification words it: module name
\* (the one inferred from the file name when frozen; left out when unknown),
\* class of 'self' when bound, function name unless at module scope.
CallerIdentity(fr) ==
    LET m == IF frozen THEN FrozenModuleName(fr.file) ELSE fr.module
        hasM == frozen \/ fr.module # NoModule
        hasC == fr.self # NoSelf
        hasF == fr.codename # "<module>"
    IN CASE hasM /\ hasC /\ hasF -> m \o "." \o fr.self \o "." \o fr.codename
         [] hasM /\ hasC /\ ~hasF -> m \o "." \o fr.self
         [] hasM /\ ~hasC /\ hasF -> m \o "." \o fr.codename
         [] hasM /\ ~hasC /\ ~hasF -> m
         [] ~hasM /\ hasC /\ hasF -> fr.self \o "." \o fr.codename
         [] ~hasM /\ hasC /\ ~hasF -> fr.self
         [] ~hasM /\ ~hasC /\ hasF -> fr.codename
         [] ~hasM /\ ~hasC /\ ~hasF -> ""

\* The frame `skip` levels above the running function.
FrameAbove(skip) == frames[Len(frames) - skip]

\* C6: caller_name(skip) returns "" and raises nothing when the chain of
\* frames from its immediate caller has fewer than skip+1 frames; otherwise it
\* resolves the frame at index skip of that chain (0 = the immediate caller).
C6_SkipBeyondDepth ==
    cev.op = "caller_name" =>
        /\ cev.err = NoExc
        /\ IF Len(frames) < cev.skip + 1
           THEN cev.result = "" /\ cev.parent = 0
           ELSE cev.parent = Len(frames) - cev.skip

\* C6 witness: caller_name is called with a skip beyond a two-frame stack.
C6_Witness ==
    /\ cev.op = "caller_name"
    /\ Len(frames) = 2
    /\ cev.skip = 2

\* C7: for the frame it resolves, caller_name returns the '.'-join of module
\* name, class of 'self' and function name, in that order, each left out as
\* the specification says: a module-level function f gets "pkg.mod.f", a
\* function g whose module is unresolved gets "g", a method m of C gets a
\* name ending in "C.m".
C7_NameComposition ==
    cev.op = "caller_name" /\ cev.parent # 0 =>
        /\ cev.result = CallerIdentity(frames[cev.parent])
        /\ (cev.skip = 0 /\ ~frozen /\ FrameAbove(0).codename = "f")
              => cev.result = "pkg.mod.f"
        /\ (cev.skip = 0 /\ ~frozen /\ FrameAbove(0).codename = "g")
              => cev.result = "g"
        /\ (cev.skip = 0 /\ FrameAbove(0).codename = "m")
              => cev.result = "pkg.mod.C.m"

\* C7 witness: a method m of class C, called from a function, asks for its
\* own name.
C7_Witness ==
    /\ cev.op = "caller_name"
    /\ cev.skip = 0
    /\ Len(frames) = 2
    /\ FrameAbove(0).self = "C"
    /\ cev.result = "pkg.mod.C.m"

\* C8: _L(skip) returns the registry's logger for the caller identity of the
\* frame skip levels above _L's immediate caller (so _L() in a function g
\* gives the logger named after g's frame), and the logger for the empty
\* name when skip goes beyond the stack.
C8_LoggerForCaller ==
    cev.op = "_L" =>
        /\ cev.err = NoExc
        /\ IF Len(frames) >= cev.skip + 1
           THEN /\ cev.parent = Len(frames) - cev.skip
                /\ cev.logger = getLogger(CallerIdentity(FrameAbove(cev.skip)))
                /\ (cev.skip = 0 /\ FrameAbove(0).codename # "<module>")
                      => (/\ cev.logger = CallerIdentity(FrameAbove(0))
                          /\ cev.logger \in loggerDict)
           ELSE cev.result = "" /\ cev.logger = getLogger("")

\* C8 witness: _L() is called from the function g, itself called from module
\* level, and the logger named "g" comes back.
C8_Witness ==
    /\ cev.op = "_L"
    /\ cev.skip = 0
    /\ Len(frames) = 2
    /\ FrameAbove(0).codename = "g"
    /\ cev.logger = "g"
====
